---- MODULE Spec2Model ----
(***************************************************************************)
(* Model of src/src/search-schema.tsx: the schema catalog fetcher, the     *)
(* favorites store kept in LocalStorage under the key "favorites", and the *)
(* toggle-favorite action of the list rows.                                *)
(*                                                                         *)
(* JavaScript values are modelled as records [t, s, kv]: t is the type     *)
(* tag, s the text of a string, kv the ordered own properties of an object *)
(* (or the elements of an array, with empty keys).  JSON text is modelled  *)
(* as a sequence of tokens, written by stringify and read back by a        *)
(* recursive-descent JSONparse, so that a text can fail to parse and a     *)
(* round trip is something the model computes.                             *)
(***************************************************************************)
EXTENDS Integers, Sequences, FiniteSets, TLC

(***************************************************************************)
(* Bounds of the model.                                                    *)
(***************************************************************************)
\* number of toggle-favorite invocations in one session
MaxToggles == 2

(***************************************************************************)
(* JavaScript values.                                                      *)
(***************************************************************************)
Undefined == [t |-> "undef", s |-> "", kv |-> <<>>]

Null == [t |-> "null", s |-> "", kv |-> <<>>]

Str(x) == [t |-> "str", s |-> x, kv |-> <<>>]

Obj(members) == [t |-> "obj", s |-> "", kv |-> members]

Arr(items) == [t |-> "arr", s |-> "", kv |-> [i \in 1..Len(items) |-> [k |-> "", v |-> items[i]]]]

Prop(key, val) == [k |-> key, v |-> val]

EmptyObj == Obj(<<>>)

EmptyArr == Arr(<<>>)

\* JavaScript truthiness of a value, as tested by `!x` and `x && ...`
Truthy(x) ==
  CASE x.t = "undef" -> FALSE
    [] x.t = "null" -> FALSE
    [] x.t = "str" -> x.s # ""
    [] OTHER -> TRUE

Keys(o) == {o.kv[i].k : i \in 1..Len(o.kv)}

\* Object.values(o)
Values(o) == [i \in 1..Len(o.kv) |-> o.kv[i].v]

IndexOf(o, key) ==
  IF \E i \in 1..Len(o.kv) : o.kv[i].k = key
  THEN CHOOSE i \in 1..Len(o.kv) : o.kv[i].k = key
  ELSE 0

\* o[key]: undefined when o has no such own property
Get(o, key) ==
  IF o.t = "obj" /\ IndexOf(o, key) # 0 THEN o.kv[IndexOf(o, key)].v ELSE Undefined

\* o[key] = val: an existing property keeps its place, a new one is appended
Set(o, key, val) ==
  IF IndexOf(o, key) # 0
  THEN [o EXCEPT !.kv[IndexOf(o, key)] = Prop(key, val)]
  ELSE [o EXCEPT !.kv = Append(@, Prop(key, val))]

\* delete o[key]
Delete(o, key) ==
  [o EXCEPT !.kv = SelectSeq(@, LAMBDA p : p.k # key)]

\* { ...o }: a fresh object with the own properties of o; null and undefined
\* spread to nothing
Spread(o) == IF o.t = "obj" THEN Obj(o.kv) ELSE EmptyObj

\* Two mappings are equal: same keys, same value under each key
MapEq(a, b) ==
  /\ a.t = "obj"
  /\ b.t = "obj"
  /\ Keys(a) = Keys(b)
  /\ \A key \in Keys(a) : Get(a, key) = Get(b, key)

(***************************************************************************)
(* JSON text: a sequence of tokens.                                        *)
(***************************************************************************)
Tok(p, x) == [p |-> p, s |-> x]

LBrace == Tok("{", "")

RBrace == Tok("}", "")

LBracket == Tok("[", "")

RBracket == Tok("]", "")

Colon == Tok(":", "")

Comma == Tok(",", "")

NullTok == Tok("null", "")

StrTok(x) == Tok("str", x)

RECURSIVE stringify(_)
RECURSIVE stringifyMembers(_, _, _)
RECURSIVE stringifyItems(_, _)

\* JSON.stringify(v) for a value that is not itself undefined
stringify(v) ==
  CASE v.t = "str" -> <<StrTok(v.s)>>
    [] v.t = "null" -> <<NullTok>>
    [] v.t = "obj" -> <<LBrace>> \o stringifyMembers(v.kv, 1, TRUE) \o <<RBrace>>
    [] v.t = "arr" -> <<LBracket>> \o stringifyItems(v.kv, 1) \o <<RBracket>>
    [] OTHER -> <<NullTok>>

\* the members of an object; a property whose value is undefined is left out
stringifyMembers(kv, i, first) ==
  IF i > Len(kv) THEN <<>>
  ELSE IF kv[i].v.t = "undef" THEN stringifyMembers(kv, i + 1, first)
  ELSE (IF first THEN <<>> ELSE <<Comma>>)
         \o <<StrTok(kv[i].k), Colon>> \o stringify(kv[i].v)
         \o stringifyMembers(kv, i + 1, FALSE)

\* the elements of an array; an undefined element is written as null
stringifyItems(kv, i) ==
  IF i > Len(kv) THEN <<>>
  ELSE (IF i = 1 THEN <<>> ELSE <<Comma>>)
         \o stringify(kv[i].v) \o stringifyItems(kv, i + 1)

ParseFail == [ok |-> FALSE, v |-> Undefined, next |-> 0]

ParseOk(val, n) == [ok |-> TRUE, v |-> val, next |-> n]

RECURSIVE parseValue(_, _)
RECURSIVE parseMember(_, _, _)
RECURSIVE parseItem(_, _, _)

\* one JSON value starting at token i
parseValue(toks, i) ==
  IF i > Len(toks) THEN ParseFail
  ELSE CASE toks[i].p = "str" -> ParseOk(Str(toks[i].s), i + 1)
         [] toks[i].p = "null" -> ParseOk(Null, i + 1)
         [] toks[i].p = "{" ->
              IF i + 1 <= Len(toks) /\ toks[i + 1].p = "}"
              THEN ParseOk(EmptyObj, i + 2)
              ELSE parseMember(toks, i + 1, EmptyObj)
         [] toks[i].p = "[" ->
              IF i + 1 <= Len(toks) /\ toks[i + 1].p = "]"
              THEN ParseOk(EmptyArr, i + 2)
              ELSE parseItem(toks, i + 1, <<>>)
         [] OTHER -> ParseFail

\* key ":" value, then "," and another member, or "}"
parseMember(toks, i, acc) ==
  IF i + 1 > Len(toks) \/ toks[i].p # "str" \/ toks[i + 1].p # ":" THEN ParseFail
  ELSE LET r == parseValue(toks, i + 2) IN
       IF ~r.ok \/ r.next > Len(toks) THEN ParseFail
       ELSE LET o == Set(acc, toks[i].s, r.v) IN
            CASE toks[r.next].p = "}" -> ParseOk(o, r.next + 1)
              [] toks[r.next].p = "," -> parseMember(toks, r.next + 1, o)
              [] OTHER -> ParseFail

\* value, then "," and another element, or "]"
parseItem(toks, i, acc) ==
  LET r == parseValue(toks, i) IN
  IF ~r.ok \/ r.next > Len(toks) THEN ParseFail
  ELSE LET items == Append(acc, r.v) IN
       CASE toks[r.next].p = "]" -> ParseOk(Arr(items), r.next + 1)
         [] toks[r.next].p = "," -> parseItem(toks, r.next + 1, items)
         [] OTHER -> ParseFail

\* JSON.parse(text): ok is FALSE where JSON.parse throws a SyntaxError
JSONparse(text) ==
  LET r == parseValue(text, 1) IN
  IF r.ok /\ r.next = Len(text) + 1 THEN [ok |-> TRUE, v |-> r.v]
  ELSE [ok |-> FALSE, v |-> Undefined]

(***************************************************************************)
(* Catalog entries (SchemaStoreCatalogItem) and the remote responses.      *)
(***************************************************************************)
\* entries are born from JSON text (the response body or the stored item), so
\* an optional field is either present or no property at all
SchemaStoreCatalogItem(name, description, url, fileMatch) ==
  Obj(<<Prop("name", Str(name)), Prop("description", Str(description)),
        Prop("url", Str(url))>>
      \o (IF fileMatch = <<>> THEN <<>> ELSE <<Prop("fileMatch", Arr(fileMatch))>>))

\* the catalog's entry for url "u1"
E1 == SchemaStoreCatalogItem("n1", "d1", "u1", <<Str("g")>>)

\* an entry for url "u1" as an earlier catalog described it
F1 == SchemaStoreCatalogItem("n1", "d0", "u1", <<>>)

\* the catalog's entry for url "u2"
E2 == SchemaStoreCatalogItem("n2", "d2", "u2", <<>>)

\* the rows of the list the user can act on, named after the entry they show
Rows == {"E1", "F1", "E2"}

SchemaOf(row) ==
  CASE row = "E1" -> E1
    [] row = "F1" -> F1
    [] OTHER -> E2

Unparseable == <<LBrace>>

\* response bodies of the catalog endpoint
Bodies ==
  { stringify(Obj(<<Prop("schemas", Arr(<<E1, E2>>))>>)),
    stringify(Obj(<<Prop("schemas", EmptyArr)>>)),
    stringify(Obj(<<Prop("version", Str("1"))>>)),
    <<NullTok>>,
    Unparseable }

\* outcomes of fetch(SCHEMA_STORE_URL) followed by data.json()
FetchOutcomes ==
  {[fetch |-> "reject", body |-> <<>>]} \cup {[fetch |-> "ok", body |-> b] : b \in Bodies}

\* outcomes of one LocalStorage call
StorageOutcomes == {"ok", "reject"}

(***************************************************************************)
(* LocalStorage, reduced to the item "favorites".                          *)
(***************************************************************************)
Absent == [present |-> FALSE, text |-> <<>>]

Stored(text) == [present |-> TRUE, text |-> text]

\* the texts the item may hold when the command starts
StartStores ==
  { Absent,
    Stored(<<>>),
    Stored(stringify(EmptyObj)),
    Stored(stringify(Obj(<<Prop("u1", E1)>>))),
    Stored(stringify(Obj(<<Prop("u1", F1)>>))),
    Stored(stringify(Obj(<<Prop("u2", E2), Prop("u1", E1)>>))),
    Stored(<<NullTok>>),
    Stored(Unparseable) }

\* the starts with no favorite: nothing stored, an empty text, or the empty map
EmptyStores == {Absent, Stored(<<>>), Stored(stringify(EmptyObj))}

(***************************************************************************)
(* The three asynchronous functions.  Each returns what the caller         *)
(* observes: raised (the promise rejects), value, and the failure toasts   *)
(* shown.                                                                  *)
(***************************************************************************)
Returned(val) == [raised |-> FALSE, value |-> val, toasts |-> <<>>]

Caught(val, message) == [raised |-> FALSE, value |-> val, toasts |-> <<message>>]

Thrown == [raised |-> TRUE, value |-> Undefined, toasts |-> <<>>]

\* mutant: no try/catch around the request, a failure rejects the promise
fetchSchemaCatalog_Uncaught(o) ==
  IF o.fetch = "reject" THEN Thrown
  ELSE LET body == JSONparse(o.body) IN
       IF ~body.ok THEN Thrown
       ELSE IF body.v.t \in {"null", "undef"} THEN Thrown
       ELSE Returned(Get(body.v, "schemas"))

fetchSchemaCatalog(o) ==
  IF o.fetch = "reject" THEN Caught(EmptyArr, "Error fetching schema catalog")
  ELSE LET body == JSONparse(o.body) IN
       IF ~body.ok THEN Caught(EmptyArr, "Error fetching schema catalog")
       \* body.schemas of null is a TypeError
       ELSE IF body.v.t \in {"null", "undef"}
            THEN Caught(EmptyArr, "Error fetching schema catalog")
       ELSE Returned(Get(body.v, "schemas"))

getFavorites(st, read) ==
  IF read = "reject" THEN Caught(EmptyObj, "Error fetching favorites")
  ELSE IF ~st.present \/ st.text = <<>> THEN Returned(EmptyObj)
  ELSE LET saved == JSONparse(st.text) IN
       IF ~saved.ok THEN Caught(EmptyObj, "Error fetching favorites")
       ELSE Returned(saved.v)

\* String(favorites), what setItem would hold without JSON.stringify
ObjectObject == <<LBracket, Tok("word", "object Object"), RBracket>>

\* mutant: the map is stored without JSON.stringify
updateFavorites_Unserialized(st, favorites, write) ==
  IF write = "reject"
  THEN [raised |-> FALSE, toasts |-> <<"Error updating favorites">>, store |-> st, calls |-> 1]
  ELSE [raised |-> FALSE, toasts |-> <<>>, store |-> Stored(ObjectObject), calls |-> 1]

\* mutant: a failed write is tried again, and the second attempt succeeds
updateFavorites_Retry(st, favorites, write) ==
  IF write = "reject"
  THEN [raised |-> FALSE, toasts |-> <<"Error updating favorites">>,
        store |-> Stored(stringify(favorites)), calls |-> 2]
  ELSE [raised |-> FALSE, toasts |-> <<>>, store |-> Stored(stringify(favorites)), calls |-> 1]

\* store: the item after the call; calls: the setItem calls made
updateFavorites(st, favorites, write) ==
  IF write = "reject"
  THEN [raised |-> FALSE, toasts |-> <<"Error updating favorites">>, store |-> st, calls |-> 1]
  ELSE [raised |-> FALSE, toasts |-> <<>>, store |-> Stored(stringify(favorites)), calls |-> 1]

(***************************************************************************)
(* CMActionPanel.                                                          *)
(***************************************************************************)
UrlOf(schema) == Get(schema, "url").s

isFavorite(favorites, schema) ==
  Truthy(favorites) /\ Get(favorites, UrlOf(schema)) # Undefined

NameOf(schema) == Get(schema, "name").s

\* mutant: the entry is added under its name instead of its url
toggleFavorite_KeyedByName(favorites, schema) ==
  IF ~Truthy(favorites)
  THEN [proceed |-> FALSE, newFavorites |-> Undefined, favorites |-> favorites]
  ELSE [proceed |-> TRUE,
        newFavorites |-> IF isFavorite(favorites, schema)
                         THEN Delete(Spread(favorites), UrlOf(schema))
                         ELSE Set(Spread(favorites), NameOf(schema), schema),
        favorites |-> favorites]

\* mutant: the hook's own map is changed and written, without the copy
toggleFavorite_InPlace(favorites, schema) ==
  IF ~Truthy(favorites)
  THEN [proceed |-> FALSE, newFavorites |-> Undefined, favorites |-> favorites]
  ELSE LET changed == IF isFavorite(favorites, schema)
                      THEN Delete(favorites, UrlOf(schema))
                      ELSE Set(favorites, UrlOf(schema), schema)
       IN [proceed |-> TRUE, newFavorites |-> changed, favorites |-> changed]

\* the synchronous part of toggleFavorite: whether it goes on to write, the
\* map it hands to updateFavorites, and the hook's map after it
toggleFavorite(favorites, schema) ==
  IF ~Truthy(favorites)
  THEN [proceed |-> FALSE, newFavorites |-> Undefined, favorites |-> favorites]
  ELSE [proceed |-> TRUE,
        newFavorites |-> IF isFavorite(favorites, schema)
                         THEN Delete(Spread(favorites), UrlOf(schema))
                         ELSE Set(Spread(favorites), UrlOf(schema), schema),
        favorites |-> favorites]

(***************************************************************************)
(* State.  useCachedPromise(getFavorites) is called by Command and by every *)
(* CMActionPanel with the same function and arguments, so the calls share  *)
(* one cached result: favorites stands for the data all rendered rows see, *)
(* replaced whenever a run of getFavorites resolves.  Each await of        *)
(* toggleFavorite is a step of its own, so calls of different rows         *)
(* interleave as the event loop allows.                                    *)
(***************************************************************************)
VARIABLES
  store,        \* LocalStorage item "favorites"
  catalogData,  \* data of useCachedPromise(fetchSchemaCatalog); undefined while loading
  favorites,    \* data of useCachedPromise(getFavorites), as the rendered rows see it
  isLoading,    \* loadingCatalog and favoritesLoading: the first run of each hook is due
  pc,           \* per row: where its toggleFavorite call stands
  pending,      \* per row: the newFavorites of its toggleFavorite call in flight
  toggles,      \* toggle-favorite invocations so far
  lastCall,     \* history: the latest call of one of the three functions
  log           \* history: the two latest toggle-favorite invocations

vars == <<store, catalogData, favorites, isLoading, pc, pending, toggles, lastCall, log>>

NoCall ==
  [fn |-> "none", arg |-> Undefined, text |-> <<>>, outcome |-> "", before |-> Absent, after |-> Absent,
   raised |-> FALSE, value |-> Undefined, toasts |-> <<>>, calls |-> 0]

NoPending == [id |-> 0, newFavorites |-> Undefined]

\* the rows the list shows: one per favorite, one per catalog entry
Shown(row) ==
  \/ /\ Truthy(favorites)
     /\ \E i \in 1..Len(Values(favorites)) : Values(favorites)[i] = SchemaOf(row)
  \/ /\ Truthy(catalogData)
     /\ \E i \in 1..Len(Values(catalogData)) : Values(catalogData)[i] = SchemaOf(row)

Idle == \A r \in Rows : pc[r] = "idle"

InitWith(stores) ==
  /\ store \in stores
  /\ catalogData = Undefined
  /\ favorites = Undefined
  /\ isLoading = [loadingCatalog |-> TRUE, favoritesLoading |-> TRUE]
  /\ pc = [r \in Rows |-> "idle"]
  /\ pending = [r \in Rows |-> NoPending]
  /\ toggles = 0
  /\ lastCall = NoCall
  /\ log = <<>>

Init == InitWith(StartStores)

InitEmpty == InitWith(EmptyStores)

(***************************************************************************)
(* Command: the two hooks run their functions when the command mounts.     *)
(***************************************************************************)
LoadCatalog(o) ==
  /\ isLoading.loadingCatalog
  /\ isLoading' = [isLoading EXCEPT !.loadingCatalog = FALSE]
  /\ LET r == fetchSchemaCatalog(o) IN
     /\ catalogData' = r.value
     /\ lastCall' = [fn |-> "fetchSchemaCatalog", arg |-> Undefined, text |-> o.body,
                     outcome |-> o.fetch, before |-> store, after |-> store,
                     raised |-> r.raised, value |-> r.value, toasts |-> r.toasts,
                     calls |-> 0]
  /\ UNCHANGED <<store, favorites, pc, pending, toggles, log>>

GetFavoritesCall(r, read) ==
  [fn |-> "getFavorites", arg |-> Undefined, text |-> <<>>, outcome |-> read,
   before |-> store, after |-> store,
   raised |-> r.raised, value |-> r.value, toasts |-> r.toasts, calls |-> 0]

LoadFavorites(read) ==
  /\ isLoading.favoritesLoading
  /\ isLoading' = [isLoading EXCEPT !.favoritesLoading = FALSE]
  /\ LET r == getFavorites(store, read) IN
     /\ ~r.raised
     /\ favorites' = r.value
     /\ lastCall' = GetFavoritesCall(r, read)
  /\ UNCHANGED <<store, catalogData, pc, pending, toggles, log>>

(***************************************************************************)
(* CMActionPanel.toggleFavorite, step by step: the synchronous part, the   *)
(* awaited updateFavorites, then revalidate (getFavorites again).          *)
(***************************************************************************)
LogEntry(row, t) ==
  [id |-> toggles + 1, row |-> row, read |-> favorites, persisted |-> store,
   alone |-> Idle, proceed |-> t.proceed, written |-> t.newFavorites, kept |-> t.favorites,
   step |-> IF t.proceed THEN "update" ELSE "done",
   writeOk |-> FALSE, readOk |-> FALSE, after |-> store, seen |-> favorites]

\* the log with the entry of toggle id replaced by entry e
Amend(l, id, e) == [i \in 1..Len(l) |-> IF l[i].id = id THEN e ELSE l[i]]

\* the entry of toggle id, or a blank one once the log has dropped it
Entry(l, id) ==
  IF \E i \in 1..Len(l) : l[i].id = id
  THEN l[CHOOSE i \in 1..Len(l) : l[i].id = id]
  ELSE [id |-> 0, row |-> "", read |-> Undefined, persisted |-> Absent, alone |-> FALSE,
        proceed |-> FALSE, written |-> Undefined, kept |-> Undefined, step |-> "done",
        writeOk |-> FALSE, readOk |-> FALSE, after |-> Absent, seen |-> Undefined]

Latest(l, e) == IF Len(l) < 2 THEN Append(l, e) ELSE <<l[2], e>>

ToggleFavorite(row) ==
  /\ toggles < MaxToggles
  /\ Shown(row)
  /\ pc[row] = "idle"
  /\ LET t == toggleFavorite(favorites, SchemaOf(row)) IN
     /\ favorites' = t.favorites
     /\ toggles' = toggles + 1
     /\ log' = Latest(log, LogEntry(row, t))
     /\ IF t.proceed
        THEN /\ pc' = [pc EXCEPT ![row] = "update"]
             /\ pending' = [pending EXCEPT ![row] = [id |-> toggles + 1, newFavorites |-> t.newFavorites]]
        ELSE UNCHANGED <<pc, pending>>
  /\ UNCHANGED <<store, catalogData, isLoading, lastCall>>

UpdateFavorites(row, write) ==
  /\ pc[row] = "update"
  /\ LET r == updateFavorites(store, pending[row].newFavorites, write)
         wrote == [Entry(log, pending[row].id) EXCEPT
                     !.step = "revalidate", !.writeOk = (write = "ok"), !.after = r.store]
     IN
     /\ store' = r.store
     /\ lastCall' = [fn |-> "updateFavorites", arg |-> pending[row].newFavorites,
                     text |-> <<>>, outcome |-> write, before |-> store, after |-> r.store,
                     raised |-> r.raised, value |-> Undefined, toasts |-> r.toasts,
                     calls |-> r.calls]
     /\ log' = Amend(log, pending[row].id, wrote)
     \* a rejection of updateFavorites would skip the .then(() => revalidate())
     /\ pc' = [pc EXCEPT ![row] = IF r.raised THEN "idle" ELSE "revalidate"]
     /\ pending' = IF r.raised THEN [pending EXCEPT ![row] = NoPending] ELSE pending
  /\ UNCHANGED <<catalogData, favorites, isLoading, toggles>>

\* mutant: the toggle ends after the write, with no call of revalidate
Revalidate_Skipped(row, read) ==
  /\ pc[row] = "revalidate"
  /\ log' = Amend(log, pending[row].id, [Entry(log, pending[row].id) EXCEPT !.step = "done"])
  /\ pc' = [pc EXCEPT ![row] = "idle"]
  /\ pending' = [pending EXCEPT ![row] = NoPending]
  /\ UNCHANGED <<store, catalogData, favorites, isLoading, toggles, lastCall>>

Revalidate(row, read) ==
  /\ pc[row] = "revalidate"
  /\ LET r == getFavorites(store, read)
         reread == [Entry(log, pending[row].id) EXCEPT
                      !.step = "done", !.readOk = (read = "ok"), !.seen = r.value]
     IN
     /\ favorites' = IF r.raised THEN favorites ELSE r.value
     /\ lastCall' = GetFavoritesCall(r, read)
     /\ log' = Amend(log, pending[row].id, reread)
  /\ pc' = [pc EXCEPT ![row] = "idle"]
  /\ pending' = [pending EXCEPT ![row] = NoPending]
  /\ UNCHANGED <<store, catalogData, isLoading, toggles>>

Next ==
  \/ \E o \in FetchOutcomes : LoadCatalog(o)
  \/ \E read \in StorageOutcomes : LoadFavorites(read)
  \/ \E row \in Rows : ToggleFavorite(row)
  \/ \E row \in Rows, write \in StorageOutcomes : UpdateFavorites(row, write)
  \/ \E row \in Rows, read \in StorageOutcomes : Revalidate(row, read)

Spec == Init /\ [][Next]_vars

SpecEmpty == InitEmpty /\ [][Next]_vars

(***************************************************************************)
(* Properties.                                                             *)
(***************************************************************************)
\* the map the item holds: empty when nothing or an empty text is stored
PersistedMap(st) ==
  IF ~st.present \/ st.text = <<>> THEN EmptyObj ELSE JSONparse(st.text).v

HoldsMap(st) ==
  \/ ~st.present
  \/ st.text = <<>>
  \/ JSONparse(st.text).ok /\ JSONparse(st.text).v.t = "obj"

FetchFailed(c) == c.outcome = "reject" \/ ~JSONparse(c.text).ok

\* C1: fetchSchemaCatalog never rejects, and when the request is rejected or
\* the body is not JSON it shows one failure toast and returns the empty list.
C1_FetchFailureYieldsEmptyList ==
  lastCall.fn = "fetchSchemaCatalog" =>
    /\ ~lastCall.raised
    /\ FetchFailed(lastCall) =>
         /\ lastCall.value = EmptyArr
         /\ lastCall.toasts = <<"Error fetching schema catalog">>

C1_Witness ==
  /\ lastCall.fn = "fetchSchemaCatalog"
  /\ lastCall.outcome = "ok"
  /\ ~JSONparse(lastCall.text).ok
  /\ lastCall.value = EmptyArr
  /\ catalogData = EmptyArr

Toggled(f, schema) ==
  IF UrlOf(schema) \in Keys(f)
  THEN Delete(f, UrlOf(schema))
  ELSE Set(f, UrlOf(schema), schema)

\* the entry toggled is absent from map f, or is the very entry f holds
Consistent(f, schema) ==
  UrlOf(schema) \in Keys(f) => Get(f, UrlOf(schema)) = schema

\* C2: two toggle-favorite invocations in a row for the same entry, the second
\* started after the first has finished, both writes successful, leave the
\* persisted map equal to the one persisted before the first.
C2_DoubleToggleRestores ==
  (/\ Len(log) = 2
   /\ log[1].row = log[2].row
   /\ log[1].step = "done" /\ log[2].step = "done"
   /\ log[1].alone /\ log[2].alone
   /\ log[1].proceed /\ log[2].proceed
   /\ log[1].writeOk /\ log[2].writeOk
   /\ HoldsMap(log[1].persisted)
   /\ Consistent(PersistedMap(log[1].persisted), SchemaOf(log[1].row)))
  => MapEq(PersistedMap(log[2].after), PersistedMap(log[1].persisted))

\* C3 as stated: after a successful write of m, getFavorites returns a map
\* equal to m.
C3_RoundTripAnyRead ==
  [][(/\ lastCall.fn = "updateFavorites"
      /\ lastCall.outcome = "ok"
      /\ lastCall'.fn = "getFavorites")
     => MapEq(lastCall'.value, lastCall.arg)]_vars

\* C3 amended: after a successful write of m, a getFavorites whose storage
\* read succeeds returns a map equal to m.
C3_RoundTrip ==
  [][(/\ lastCall.fn = "updateFavorites"
      /\ lastCall.outcome = "ok"
      /\ lastCall'.fn = "getFavorites"
      /\ lastCall'.outcome = "ok")
     => MapEq(lastCall'.value, lastCall.arg)]_vars

C3_Witness ==
  \E i \in 1..Len(log) :
    /\ log[i].step = "done"
    /\ log[i].writeOk
    /\ log[i].readOk
    /\ lastCall.fn = "getFavorites"
    /\ lastCall.before = log[i].after
    /\ Len(log[i].written.kv) = 2
    /\ MapEq(lastCall.value, log[i].written)

\* C4: started with nothing stored, every key of the persisted map is the
\* url of the entry under it, and the item always holds a map.
C4_KeyIsEntryUrl ==
  /\ HoldsMap(store)
  /\ \A key \in Keys(PersistedMap(store)) :
       Get(Get(PersistedMap(store), key), "url") = Str(key)

C4_Witness ==
  /\ HoldsMap(store)
  /\ Keys(PersistedMap(store)) = {"u1", "u2"}

\* C5: a toggle on entry e that read map f hands updateFavorites a map with
\* e under e.url if f had no such key, without that key if f had it, equal
\* to f on every other key, and leaves f as it was.
C5_ToggleWritesToggledMap ==
  \A i \in 1..Len(log) :
    log[i].proceed =>
      LET f == log[i].read
          w == log[i].written
          e == SchemaOf(log[i].row)
      IN /\ w.t = "obj"
         /\ UrlOf(e) \notin Keys(f) => Get(w, UrlOf(e)) = e
         /\ UrlOf(e) \in Keys(f) => UrlOf(e) \notin Keys(w)
         /\ \A key \in (Keys(f) \cup Keys(w)) \ {UrlOf(e)} : Get(w, key) = Get(f, key)
         /\ log[i].kept = f

C5_Witness ==
  \E i \in 1..Len(log) :
    /\ log[i].proceed
    /\ Keys(log[i].read) = {"u1", "u2"}
    /\ Keys(log[i].written) = {"u2"}
    /\ log[i].kept = log[i].read

\* C6: getFavorites never rejects and always returns a mapping: the empty one
\* when nothing is stored, when the read fails or when the text is not JSON
\* (with a toast in the last two cases); the item is left as it was.
C6_GetFavoritesReturnsMap ==
  lastCall.fn = "getFavorites" =>
    /\ ~lastCall.raised
    /\ lastCall.value.t = "obj"
    /\ lastCall.after = lastCall.before
    /\ ~lastCall.before.present => lastCall.value = EmptyObj
    /\ (lastCall.outcome = "reject" \/ ~JSONparse(lastCall.before.text).ok) =>
         /\ lastCall.value = EmptyObj
         /\ (lastCall.outcome = "reject" \/ lastCall.before.text # <<>>) =>
              lastCall.toasts = <<"Error fetching favorites">>

\* C7: a failed write is reported once, is not tried again, rejects nothing,
\* and leaves the item as it was.
C7_WriteFailureReportedOnce ==
  (lastCall.fn = "updateFavorites" /\ lastCall.outcome = "reject") =>
    /\ lastCall.toasts = <<"Error updating favorites">>
    /\ lastCall.calls = 1
    /\ ~lastCall.raised
    /\ lastCall.after = lastCall.before
    /\ store = lastCall.before

C7_Witness ==
  /\ lastCall.fn = "updateFavorites"
  /\ lastCall.outcome = "reject"
  /\ lastCall.before.present
  /\ store = lastCall.before
  /\ \E r \in Rows : pc[r] = "revalidate"

\* C8: after toggling entry A and then, once that has finished, entry B of
\* another url, both writes successful, the persisted map reflects both
\* changes: it is the map persisted before, with A toggled and B toggled.
C8_NoToggleLost ==
  (/\ Len(log) = 2
   /\ UrlOf(SchemaOf(log[1].row)) # UrlOf(SchemaOf(log[2].row))
   /\ log[1].step = "done" /\ log[2].step = "done"
   /\ log[1].alone /\ log[2].alone
   /\ log[1].proceed /\ log[2].proceed
   /\ log[1].writeOk /\ log[2].writeOk
   /\ HoldsMap(log[1].persisted))
  => MapEq(PersistedMap(log[2].after),
           Toggled(Toggled(PersistedMap(log[1].persisted), SchemaOf(log[1].row)),
                   SchemaOf(log[2].row)))

LastToggle == log[Len(log)]

\* C9 as stated: once a toggle has written and been followed by its re-read
\* and nothing is pending, the view's favorites equal the persisted map.
C9_ViewEqualsPersisted ==
  (/\ Idle
   /\ log # <<>>
   /\ LastToggle.step = "done"
   /\ LastToggle.proceed
   /\ LastToggle.writeOk
   /\ HoldsMap(store))
  => MapEq(favorites, PersistedMap(store))

\* the write of a toggle is followed by its re-read, not before the write has
\* resolved, and the re-read's result becomes the view's favorites
C9_Step ==
  \A r \in Rows :
    /\ (pc[r] = "update" /\ pc'[r] # "update") =>
         /\ pc'[r] = "revalidate"
         /\ lastCall'.fn = "updateFavorites"
         /\ store' = lastCall'.after
    /\ (pc[r] = "revalidate" /\ pc'[r] # "revalidate") =>
         /\ lastCall'.fn = "getFavorites"
         /\ lastCall'.before = store
         /\ favorites' = lastCall'.value

\* C9 amended: every toggle that writes re-reads the favorites after the write
\* has resolved; once nothing is pending the view holds what the latest
\* re-read returned: what the item holds if its read succeeded (the empty map
\* for a text that is not JSON), the empty map if the read failed.
C9_ViewHoldsLatestReread ==
  /\ [][C9_Step]_vars
  /\ [](( /\ Idle
          /\ lastCall.fn = "getFavorites")
        => /\ favorites = lastCall.value
           /\ lastCall.outcome = "reject" => favorites = EmptyObj
           /\ (lastCall.outcome = "ok" /\ HoldsMap(store)) => favorites = PersistedMap(store)
           /\ (lastCall.outcome = "ok" /\ store.present /\ ~JSONparse(store.text).ok)
                => favorites = EmptyObj)

C9_Witness ==
  /\ Idle
  /\ log # <<>>
  /\ LastToggle.step = "done"
  /\ LastToggle.writeOk
  /\ LastToggle.readOk
  /\ lastCall.fn = "getFavorites"
  /\ favorites = PersistedMap(store)
  /\ Len(favorites.kv) = 2

\* C10: whatever the endpoint answers, fetchSchemaCatalog returns a list.
C10_FetchReturnsList ==
  lastCall.fn = "fetchSchemaCatalog" => lastCall.value.t = "arr"

====
